---- MODULE Spec2Model ----
(***************************************************************************)
(* A model of taxtastic's GreenGenes loader (taxtastic/greengenes.py) and  *)
(* of the update_taxids subcommand (taxtastic/subcommands/update_taxids.py)*)
(*                                                                         *)
(* Python strings are sequences of one-character strings, so that          *)
(* indexing, slicing, startswith, split and comparison are computed.       *)
(* A call that may raise returns a record [exc, val]: exc = "none" and the *)
(* value, or the name of the exception raised.                             *)
(***************************************************************************)
EXTENDS Integers, Sequences, FiniteSets, TLC

VARIABLES
    \* ---- pure functions of greengenes.py applied to drawn inputs
    fn, arg_species, arg_genus, arg_tokens, arg_classes, arg_otu_id, result,
    \* ---- db_load / _load_rows / _clean_species
    handle,      \* the lines of the archive member (fixed per behaviour)
    source_id,   \* what _get_source_id returns: None or a row (a tuple)
    nodes,       \* table nodes as seen by the connection, in rowid order
    names,       \* table names as seen by the connection, in rowid order
    committed,   \* the store's committed state: [nodes, names]
    count,       \* next value of itertools.count() of the current load
    pos,         \* lines of handle consumed by the generator _parse_gg
    classes,     \* rest of the lineage being walked
    parent,      \* running parent reference of the walk
    pc,          \* position: idle, load_rows, rows, walk, clean
    via,         \* entry point of the current/last call
    exc,         \* exception the last call ended with ("none" if none)
    runs,        \* number of db_load calls completed without exception
    calls,       \* number of calls of db_load and _load_rows made
    after1,      \* [nodes, names] when the first db_load completed
    \* ---- update_taxids.action
    fieldnames, arg_taxid_column, tax_id_file, unknown_action, with_unknowns,
    infile,      \* the data rows of the input, as DictReader yields them
    all_tax_ids, mergedict,
    taxid_column,\* the resolved column name
    rpos,        \* rows of infile consumed
    out_header,  \* whether the header was written to args.outfile
    outfile,     \* the data rows written to args.outfile
    unk_header,  \* whether the header was written to args.unknowns
    unknowns,    \* the data rows written to args.unknowns
    rpc,         \* position: start, rows, done, raised, exited
    rexc         \* exception or exit of action ("none" if none)

pureVars == <<fn, arg_species, arg_genus, arg_tokens, arg_classes, arg_otu_id, result>>
loadVars == <<handle, source_id, nodes, names, committed, count, pos, classes,
              parent, pc, via, exc, runs, calls, after1>>
remapVars == <<fieldnames, arg_taxid_column, tax_id_file, unknown_action,
               with_unknowns, infile, all_tax_ids, mergedict, taxid_column,
               rpos, out_header, outfile, unk_header, unknowns, rpc,
               rexc>>
vars == <<pureVars, loadVars, remapVars>>

(***************************************************************************)
(* Bounds of the model                                                     *)
(***************************************************************************)
MaxLen == 2      \* length of the strings drawn for _add_space
MaxTokens == 2   \* tokens in the classes drawn for _parse_classes
MaxLines == 2    \* lines of the archive member
MaxCalls == 2    \* calls of db_load / _load_rows per behaviour
MaxRows == 2     \* data rows of the remapper's input

(***************************************************************************)
(* Python str                                                              *)
(***************************************************************************)
None == [some |-> FALSE, val |-> <<>>]
Some(x) == [some |-> TRUE, val |-> x]

Ok(v) == [exc |-> "none", val |-> v]
Raise(e) == [exc |-> e, val |-> <<>>]

\* ord(c) for the characters that occur
Ord(c) ==
    CASE c = "\t" -> 9 [] c = "\n" -> 10 [] c = " " -> 32
      [] c = "0" -> 48 [] c = "1" -> 49 [] c = "2" -> 50 [] c = "3" -> 51
      [] c = "4" -> 52 [] c = "5" -> 53 [] c = "6" -> 54 [] c = "7" -> 55
      [] c = "8" -> 56 [] c = "9" -> 57 [] c = ";" -> 59
      [] c = "A" -> 65 [] c = "B" -> 66 [] c = "G" -> 71 [] c = "_" -> 95
      [] c = "b" -> 98 [] c = "c" -> 99 [] c = "d" -> 100 [] c = "e" -> 101
      [] c = "f" -> 102 [] c = "g" -> 103 [] c = "i" -> 105 [] c = "k" -> 107
      [] c = "l" -> 108 [] c = "m" -> 109 [] c = "n" -> 110 [] c = "o" -> 111
      [] c = "p" -> 112 [] c = "r" -> 114 [] c = "s" -> 115 [] c = "t" -> 116
      [] c = "u" -> 117 [] c = "x" -> 120 [] c = "y" -> 121

Digits == {"0", "1", "2", "3", "4", "5", "6", "7", "8", "9"}
Whitespace == {" ", "\t", "\n"}

\* s[i:] and s[:i] for 0 <= i
SliceFrom(s, i) == SubSeq(s, i + 1, Len(s))
SliceTo(s, i) == SubSeq(s, 1, IF i < Len(s) THEN i ELSE Len(s))

\* s.startswith(p)
StartsWith(s, p) == Len(p) <= Len(s) /\ SubSeq(s, 1, Len(p)) = p

\* a < b on str (lexicographic on ord)
RECURSIVE StrLess(_, _)
StrLess(a, b) ==
    IF b = <<>> THEN FALSE
    ELSE IF a = <<>> THEN TRUE
    ELSE IF Head(a) = Head(b) THEN StrLess(Tail(a), Tail(b))
    ELSE Ord(Head(a)) < Ord(Head(b))

\* s.split(sep), sep not empty
RECURSIVE Split(_, _)
Split(s, sep) ==
    LET hits == {i \in 1..(Len(s) - Len(sep) + 1) :
                    SubSeq(s, i, i + Len(sep) - 1) = sep}
    IN  IF hits = {} THEN <<s>>
        ELSE LET i == CHOOSE h \in hits : \A g \in hits : h <= g
             IN  <<SubSeq(s, 1, i - 1)>> \o Split(SliceFrom(s, i + Len(sep) - 1), sep)

\* s.rstrip()
RECURSIVE RStrip(_)
RStrip(s) ==
    IF s # <<>> /\ s[Len(s)] \in Whitespace THEN RStrip(SubSeq(s, 1, Len(s) - 1))
    ELSE s

\* str(n) for n >= 0
RECURSIVE Str(_)
Str(n) ==
    LET d == CHOOSE c \in Digits : Ord(c) = 48 + (n % 10)
    IN  IF n < 10 THEN <<d>> ELSE Str(n \div 10) \o <<d>>

\* int(s) for s over the characters drawn: a decimal literal or ValueError
RECURSIVE DecValue(_)
DecValue(s) == IF s = <<>> THEN 0 ELSE 10 * DecValue(SubSeq(s, 1, Len(s) - 1)) + (Ord(s[Len(s)]) - 48)

IsDecimal(s) == s # <<>> /\ \A i \in 1..Len(s) : s[i] \in Digits
PyInt(s) == IF IsDecimal(s) THEN Ok(DecValue(s)) ELSE Raise("ValueError")

\* '{0:08d}'.format(n)
RECURSIVE ZeroPad(_, _)
ZeroPad(s, w) == IF Len(s) >= w THEN s ELSE ZeroPad(<<"0">> \o s, w)

IdWidth == 8
Format08d(n) == ZeroPad(Str(n), IdWidth)

(***************************************************************************)
(* greengenes.py: module constants                                         *)
(***************************************************************************)
\* taxdb.root_name
root_name == <<"r", "o", "o", "t">>

RankKeys == {"k", "p", "c", "o", "f", "g", "s"}
_rank_map == [k \in RankKeys |->
    CASE k = "k" -> <<"k", "i", "n", "g", "d", "o", "m">>
      [] k = "p" -> <<"p", "h", "y", "l", "u", "m">>
      [] k = "c" -> <<"c", "l", "a", "s", "s">>
      [] k = "o" -> <<"o", "r", "d", "e", "r">>
      [] k = "f" -> <<"f", "a", "m", "i", "l", "y">>
      [] k = "g" -> <<"g", "e", "n", "u", "s">>
      [] k = "s" -> <<"s", "p", "e", "c", "i", "e", "s">>]
genus == _rank_map["g"]
species == _rank_map["s"]
otu == <<"o", "t", "u">>

(***************************************************************************)
(* greengenes.py: _add_space, _parse_classes, _parse_gg                    *)
(***************************************************************************)
\* species[i] for 0 <= i: the character or IndexError
Index(s, i) == IF i < Len(s) THEN Ok(s[i + 1]) ELSE Raise("IndexError")

\* _add_space without the test for a space that is already there
AddSpaceAlways(sp, ge) ==
    LET l == Len(ge)
    IN  IF StartsWith(sp, ge)
        THEN IF Index(sp, l).exc # "none" THEN Raise("IndexError")
             ELSE Ok(SliceTo(sp, l) \o <<" ">> \o SliceFrom(sp, l))
        ELSE Ok(sp)

_add_space(sp, ge) ==
    LET l == Len(ge)
    IN  IF StartsWith(sp, ge)
        THEN IF Index(sp, l).exc # "none" THEN Raise("IndexError")
             ELSE IF Index(sp, l).val # " "
                  THEN Ok(SliceTo(sp, l) \o <<" ">> \o SliceFrom(sp, l))
                  ELSE Ok(sp)
        ELSE Ok(sp)

\* result.extend([_rank_map[cls_key], cls or None] for cls_key, cls in split if cls)
RECURSIVE Classify(_)
Classify(split) ==
    IF split = <<>> THEN Ok(<<>>)
    ELSE LET item == Head(split)
         IN  IF Len(item) # 2 THEN Raise("ValueError")
             ELSE IF item[2] = <<>> THEN Classify(Tail(split))
             ELSE IF Len(item[1]) # 1 \/ item[1][1] \notin RankKeys THEN Raise("KeyError")
             ELSE LET rest == Classify(Tail(split))
                  IN  IF rest.exc # "none" THEN rest
                      ELSE Ok(<<[rank |-> _rank_map[item[1][1]], name |-> item[2]]>> \o rest.val)

\* the special handling of a species that follows its genus
FixSpecies(res) ==
    LET n == Len(res)
    IN  IF res[n].rank = species /\ res[n - 1].rank = genus
        THEN LET sp == res[n].name
                 ge == res[n - 1].name
             IN  IF StartsWith(sp, ge)
                 THEN IF Index(sp, Len(ge)).exc # "none" THEN Raise("IndexError")
                      ELSE IF Index(sp, Len(ge)).val # " "
                           THEN LET fixed == _add_space(sp, ge)
                                IN  IF fixed.exc # "none" THEN fixed
                                    ELSE Ok([res EXCEPT ![n].name = fixed.val])
                           ELSE Ok(res)
                 ELSE Ok(res)
        ELSE Ok(res)

_parse_classes(cls, otu_id) ==
    LET split == [i \in 1..Len(Split(cls, <<";">>)) |->
                     Split(Split(cls, <<";">>)[i], <<"_", "_">>)]
        added == Classify(split)
    IN  IF added.exc # "none" THEN added
        ELSE LET res == <<[rank |-> root_name, name |-> root_name]>> \o added.val
                 fixed == FixSpecies(res)
             IN  IF fixed.exc # "none" THEN fixed
                 ELSE Ok(fixed.val \o <<[rank |-> otu, name |-> Str(otu_id)]>>)

\* one step of the generator _parse_gg: the lineage of one line
_parse_gg(line) ==
    LET parts == Split(RStrip(line), <<"\t">>)
    IN  IF Len(parts) # 2 THEN Raise("ValueError")
        ELSE IF PyInt(parts[1]).exc # "none" THEN Raise("ValueError")
        ELSE _parse_classes(parts[2], PyInt(parts[1]).val)

(***************************************************************************)
(* Inputs: strings and classes the pure functions are applied to           *)
(***************************************************************************)
RECURSIVE StringsUpTo(_, _)
StringsUpTo(chars, n) ==
    IF n = 0 THEN {<<>>}
    ELSE LET shorter == StringsUpTo(chars, n - 1)
         IN  shorter \cup {Append(s, c) : s \in shorter, c \in chars}

RECURSIVE SeqsUpTo(_, _)
SeqsUpTo(S, n) ==
    IF n = 0 THEN {<<>>}
    ELSE LET shorter == SeqsUpTo(S, n - 1)
         IN  shorter \cup {Append(s, x) : s \in shorter, x \in S}

\* sep.join(parts)
RECURSIVE Join(_, _)
Join(parts, sep) ==
    IF parts = <<>> THEN <<>>
    ELSE IF Len(parts) = 1 THEN parts[1]
    ELSE parts[1] \o sep \o Join(Tail(parts), sep)

Token(t) == <<t.key>> \o <<"_", "_">> \o t.name
ClassesOf(tokens) == Join([i \in 1..Len(tokens) |-> Token(tokens[i])], <<";">>)

PureChars == {" ", "A", "b"}
PureStrings == StringsUpTo(PureChars, MaxLen)
PureTokens == [key : {"k", "g", "s"}, name : {<<>>, <<"A">>, <<"A", "b">>, <<"A", " ", "b">>}]
PureOtuIds == {7, 10}
Pending == [exc |-> "pending", val |-> <<>>]

PureIdle ==
    /\ fn = "none" /\ arg_species = <<>> /\ arg_genus = <<>> /\ arg_tokens = <<>>
    /\ arg_classes = <<>> /\ arg_otu_id = 0 /\ result = Pending

PureInit ==
    /\ fn \in {"_add_space", "_parse_classes"}
    /\ result = Pending
    /\ IF fn = "_add_space"
       THEN /\ arg_species \in PureStrings
            /\ arg_genus \in PureStrings
            /\ arg_tokens = <<>> /\ arg_classes = <<>> /\ arg_otu_id = 0
       ELSE /\ arg_species = <<>> /\ arg_genus = <<>>
            /\ arg_tokens \in SeqsUpTo(PureTokens, MaxTokens) \ {<<>>}
            /\ arg_classes = ClassesOf(arg_tokens)
            /\ arg_otu_id \in PureOtuIds

Call_add_space ==
    /\ fn = "_add_space" /\ result = Pending
    /\ result' = _add_space(arg_species, arg_genus)
    /\ UNCHANGED <<fn, arg_species, arg_genus, arg_tokens, arg_classes, arg_otu_id>>
    /\ UNCHANGED <<loadVars, remapVars>>

Call_parse_classes ==
    /\ fn = "_parse_classes" /\ result = Pending
    /\ result' = _parse_classes(arg_classes, arg_otu_id)
    /\ UNCHANGED <<fn, arg_species, arg_genus, arg_tokens, arg_classes, arg_otu_id>>
    /\ UNCHANGED <<loadVars, remapVars>>

(***************************************************************************)
(* greengenes.py: the store, _load_rows and db_load                        *)
(***************************************************************************)
EmptyStore == [nodes |-> <<>>, names |-> <<>>]

\* taxdb.has_row(cursor, table)
has_row(table) == Len(table) > 0

\* the lookup with the tax_id column compared instead of tax_name
LookupByTaxId(tbl, name) ==
    LET hits == {i \in 1..Len(tbl) : tbl[i].tax_id = name}
    IN  IF hits = {} THEN None
        ELSE Some(tbl[CHOOSE i \in hits : \A j \in hits : i <= j].tax_id)

\* SELECT tax_id from names WHERE tax_name = ?  followed by fetchone()
Lookup(tbl, name) ==
    LET hits == {i \in 1..Len(tbl) : tbl[i].tax_name = name}
    IN  IF hits = {} THEN None
        ELSE Some(tbl[CHOOSE i \in hits : \A j \in hits : i <= j].tax_id)

\* itertools.count(): the first value count.next() returns
CountStart == 0

\* 'GG{0:08d}'.format(count.next())
NewTaxId(n) == <<"G", "G">> \o Format08d(n)

\* the parent passed in used as it is, None (no value) included
ParentIdAsGiven(parent_id, tax_id) == parent_id.val

\* if parent_id is None: parent_id = tax_id
ParentId(parent_id, tax_id) == IF parent_id = None THEN tax_id ELSE parent_id.val

\* the rows inserted so far kept when the body raises
KeepInserted == [nodes |-> nodes, names |-> names]

\* with con: the transaction is rolled back when its body raises
Rollback == committed

\* what the caller of the current call sees raised
Raised(e) == IF via = "db_load" /\ e = "sqlite3.IntegrityError" THEN "IntegrityError" ELSE e

Fail(e) ==
    /\ nodes' = Rollback.nodes
    /\ names' = Rollback.names
    /\ exc' = Raised(e)
    /\ pc' = "idle"
    /\ classes' = <<>>
    /\ parent' = None
    /\ UNCHANGED <<handle, source_id, committed, pos, via, runs, calls, after1>>

\* _load_rows returns to its caller: db_load goes on to _clean_species
ReturnTo == IF via = "db_load" THEN "clean" ELSE "idle"

db_load ==
    /\ UNCHANGED <<pureVars, remapVars>>
    /\ pc = "idle" /\ calls < MaxCalls
    /\ calls' = calls + 1
    /\ via' = "db_load"
    /\ exc' = "none"
    /\ pos' = 0
    /\ pc' = IF ~has_row(nodes) THEN "load_rows" ELSE "clean"
    /\ UNCHANGED <<handle, source_id, nodes, names, committed, count, classes,
                   parent, runs, after1>>

Call_load_rows ==
    /\ UNCHANGED <<pureVars, remapVars>>
    /\ pc = "idle" /\ calls < MaxCalls
    /\ calls' = calls + 1
    /\ via' = "_load_rows"
    /\ exc' = "none"
    /\ pos' = 0
    /\ pc' = "load_rows"
    /\ UNCHANGED <<handle, source_id, nodes, names, committed, count, classes,
                   parent, runs, after1>>

\* the guard of _load_rows
Populated == has_row(nodes) \/ has_row(names)

_load_rows ==
    /\ UNCHANGED <<pureVars, remapVars>>
    /\ pc = "load_rows"
    /\ IF Populated
       THEN pc' = ReturnTo /\ UNCHANGED count
       ELSE pc' = "rows" /\ count' = CountStart
    /\ UNCHANGED <<handle, source_id, nodes, names, committed, pos, classes,
                   parent, via, exc, runs, calls, after1>>

\* for classes in rows: the generator parses the next line, or is exhausted
\* and the transaction commits
NextRow ==
    /\ UNCHANGED <<pureVars, remapVars>>
    /\ pc = "rows"
    /\ IF pos = Len(handle)
       THEN /\ committed' = [nodes |-> nodes, names |-> names]
            /\ pc' = ReturnTo
            /\ UNCHANGED <<handle, source_id, nodes, names, pos, classes,
                           parent, via, exc, runs, calls, after1>>
       ELSE LET r == _parse_gg(handle[pos + 1])
            IN  IF r.exc # "none" THEN Fail(r.exc)
                ELSE /\ classes' = r.val
                     /\ parent' = None
                     /\ pos' = pos + 1
                     /\ pc' = "walk"
                     /\ UNCHANGED <<handle, source_id, nodes, names, committed,
                                    via, exc, runs, calls, after1>>
    /\ UNCHANGED count

\* parent = _get_or_insert(name, rank, parent, source_id)
_get_or_insert ==
    /\ UNCHANGED <<pureVars, remapVars>>
    /\ pc = "walk"
    /\ LET rank == Head(classes).rank
           name == Head(classes).name
           found == Lookup(names, name)
           tax_id == NewTaxId(count)
           after == IF Len(classes) = 1 THEN "rows" ELSE "walk"
       IN  IF found.some
           THEN /\ parent' = found
                /\ classes' = Tail(classes)
                /\ pc' = after
                /\ UNCHANGED <<handle, source_id, nodes, names, committed, count,
                               pos, via, exc, runs, calls, after1>>
           ELSE /\ count' = count + 1
                /\ IF source_id.some
                   THEN \* a row (a tuple) cannot be bound as a parameter
                        Fail("sqlite3.InterfaceError")
                   ELSE \/ \* a constraint of the schema rejects the row
                           Fail("sqlite3.IntegrityError")
                        \/ /\ nodes' = Append(nodes,
                                  [tax_id |-> tax_id,
                                   parent_id |-> ParentId(parent, tax_id),
                                   rank |-> rank, source_id |-> source_id])
                           /\ names' = Append(names,
                                  [tax_id |-> tax_id, tax_name |-> name,
                                   is_primary |-> 1])
                           /\ parent' = Some(tax_id)
                           /\ classes' = Tail(classes)
                           /\ pc' = after
                           /\ UNCHANGED <<handle, source_id, committed, pos, via,
                                          exc, runs, calls, after1>>

(***************************************************************************)
(* greengenes.py: _clean_species                                           *)
(***************************************************************************)
\* sorted(S) for a set of str
RECURSIVE Sorted(_)
Sorted(S) ==
    IF S = {} THEN <<>>
    ELSE LET m == CHOOSE x \in S : \A y \in S \ {x} : StrLess(x, y)
         IN  <<m>> \o Sorted(S \ {m})

\* keys = sorted(all_genus): the names of the nodes of rank genus
GenusKeys(nd, nm) ==
    Sorted({nm[i].tax_name : i \in {i \in 1..Len(nm) :
                \E j \in 1..Len(nd) : nd[j].tax_id = nm[i].tax_id /\ nd[j].rank = genus}})

\* bisect.bisect_left(keys, x): 0-based
bisect_left(keys, x) == Cardinality({i \in 1..Len(keys) : StrLess(keys[i], x)})

\* takewhile(k < tax_name) over keys from 1-based i, first k tax_name starts with
RECURSIVE FirstPrefix(_, _, _)
FirstPrefix(keys, i, tax_name) ==
    IF i > Len(keys) THEN None
    ELSE IF ~StrLess(keys[i], tax_name) THEN None
    ELSE IF StartsWith(tax_name, keys[i]) THEN Some(keys[i])
    ELSE FirstPrefix(keys, i + 1, tax_name)

find_genus(keys, tax_name) ==
    FirstPrefix(keys, bisect_left(keys, <<tax_name[1]>>) + 1, tax_name)

\* SQLite values: text or integer
SqlText(s) == [t |-> "text", v |-> s]
SqlInteger(n) == [t |-> "integer", v |-> n]

\* the numeric value SQLite reads from a text operand of an arithmetic operator
RECURSIVE DigitPrefix(_)
DigitPrefix(s) ==
    IF s # <<>> /\ Head(s) \in Digits THEN <<Head(s)>> \o DigitPrefix(Tail(s)) ELSE <<>>
SqlNumeric(s) == DecValue(DigitPrefix(s))

\* a + b in SQL: arithmetic addition, also of text operands
SqlPlus(a, b) == SqlInteger(SqlNumeric(a) + SqlNumeric(b))

\* x <> y in SQL for operands without affinity: values of different storage
\* classes are never equal
SqlNe(x, y) == x.t # y.t \/ x.v # y.v

\* SUBSTR(s, 1, n)
SqlSubstr1(s, n) == SliceTo(s, n)

\* SUBSTR(sname.tax_name, 1, LENGTH(gname.tax_name) + 1) <> gname.tax_name + ' '
NotGenusSpace(sname, gname) ==
    SqlNe(SqlText(SqlSubstr1(sname, Len(gname) + 1)), SqlPlus(gname, <<" ">>))

\* rows of names (by index) the SELECT of _clean_species yields
Selected(nd, nm) ==
    {i \in 1..Len(nm) :
        \E s \in 1..Len(nd), g \in 1..Len(nd), n \in 1..Len(nm) :
            /\ nd[s].parent_id = nd[g].tax_id
            /\ nm[i].tax_id = nd[s].tax_id
            /\ nm[n].tax_id = nd[g].tax_id
            /\ nd[s].rank = species
            /\ nd[g].rank = genus
            /\ NotGenusSpace(nm[i].tax_name, nm[n].tax_name)}

\* args: the staged (new_tax_name, tax_id) pairs, in the order of the cursor
RECURSIVE Staged(_, _, _, _)
Staged(nd, nm, keys, i) ==
    IF i > Len(nm) THEN <<>>
    ELSE LET g == IF i \in Selected(nd, nm) THEN find_genus(keys, nm[i].tax_name) ELSE None
         IN  IF g.some /\ g.val # <<>>
             THEN <<[new_tax_name |-> _add_space(nm[i].tax_name, g.val).val,
                     tax_id |-> nm[i].tax_id]>> \o Staged(nd, nm, keys, i + 1)
             ELSE Staged(nd, nm, keys, i + 1)

\* cursor.executemany("UPDATE names SET tax_name = ? WHERE tax_id = ?", args)
RECURSIVE ExecuteMany(_, _)
ExecuteMany(nm, args) ==
    IF args = <<>> THEN nm
    ELSE ExecuteMany([i \in 1..Len(nm) |->
                        IF nm[i].tax_id = Head(args).tax_id
                        THEN [nm[i] EXCEPT !.tax_name = Head(args).new_tax_name]
                        ELSE nm[i]],
                     Tail(args))

Cleaned(nd, nm) == ExecuteMany(nm, Staged(nd, nm, GenusKeys(nd, nm), 1))

_clean_species ==
    /\ UNCHANGED <<pureVars, remapVars>>
    /\ pc = "clean"
    /\ names' = Cleaned(nodes, names)
    /\ committed' = [nodes |-> nodes, names |-> names']
    /\ runs' = runs + 1
    /\ after1' = IF runs = 0 THEN [nodes |-> nodes, names |-> names'] ELSE after1
    /\ pc' = "idle"
    /\ UNCHANGED <<handle, source_id, nodes, count, pos, classes, parent, via,
                   exc, calls>>

(***************************************************************************)
(* The archives loaded                                                     *)
(***************************************************************************)
T(k, n) == [key |-> k, name |-> n]
LineOf(otu_text, tokens) == otu_text \o <<"\t">> \o ClassesOf(tokens) \o <<"\n">>

LoadLines == {
    LineOf(<<"1">>, <<T("g", <<"A">>), T("s", <<"B", "c">>)>>),
    LineOf(<<"2">>, <<T("g", <<"B">>), T("s", <<"B", " ", "c">>)>>),
    LineOf(<<"0", "3">>, <<T("k", <<"A">>), T("g", <<>>), T("s", <<"B", "c">>)>>),
    LineOf(<<"4">>, <<T("g", <<"A", "b">>), T("s", <<"A", "b", "c">>)>>),
    LineOf(<<"5">>, <<T("g", <<"B">>), T("x", <<"A">>)>>),
    LineOf(<<"6">>, <<T("g", <<"A">>), T("s", <<"A">>)>>),
    LineOf(<<"7">>, <<T("g", <<"B">>), T("s", <<"A", "b", "c">>)>>) }

LoadIdle ==
    /\ handle = <<>> /\ source_id = None /\ nodes = <<>> /\ names = <<>>
    /\ committed = EmptyStore /\ count = 0 /\ pos = 0 /\ classes = <<>>
    /\ parent = None /\ pc = "off" /\ via = "none" /\ exc = "none"
    /\ runs = 0 /\ calls = 0 /\ after1 = EmptyStore

\* an empty store, an archive, and a source table with or without a row named
\* greengenes (_get_source_id returns cursor.fetchone(): the row or None)
LoadInit ==
    /\ handle \in SeqsUpTo(LoadLines, MaxLines)
    /\ source_id \in {None, Some(<<1>>)}
    /\ nodes = <<>> /\ names = <<>>
    /\ committed = EmptyStore /\ count = 0 /\ pos = 0 /\ classes = <<>>
    /\ parent = None /\ pc = "idle" /\ via = "none" /\ exc = "none"
    /\ runs = 0 /\ calls = 0 /\ after1 = EmptyStore

RemapIdle ==
    /\ fieldnames = <<>> /\ arg_taxid_column = <<>> /\ tax_id_file = FALSE
    /\ unknown_action = "error" /\ with_unknowns = FALSE /\ infile = <<>>
    /\ all_tax_ids = {} /\ mergedict = <<>> /\ taxid_column = <<>>
    /\ rpos = 0 /\ out_header = FALSE /\ outfile = <<>> /\ unk_header = FALSE
    /\ unknowns = <<>> /\ rpc = "off" /\ rexc = "none"

(***************************************************************************)
(* update_taxids.py: action                                                *)
(***************************************************************************)
Range(f) == {f[x] : x \in DOMAIN f}

\* str.isnumeric() for the characters drawn
isnumeric(s) == IsDecimal(s)

\* lst[i] of a Python list: a negative index counts from the end
ListIndex(lst, i) ==
    IF 0 <= i /\ i < Len(lst) THEN Ok(lst[i + 1])
    ELSE IF i < 0 /\ -Len(lst) <= i THEN Ok(lst[Len(lst) + i + 1])
    ELSE Raise("IndexError")

\* the column named by args.taxid_column, or the exception raised
ResolveColumn(names_, selector) ==
    IF selector \in Range(names_) THEN Ok(selector)
    ELSE IF isnumeric(selector)
         THEN ListIndex(names_, PyInt(selector).val - 1)
         ELSE Raise("ValueError")

\* if not (args.tax_id_file or args.taxid_column.isnumeric()): writer.writeheader()
WritesHeader == ~(tax_id_file \/ isnumeric(arg_taxid_column))

\* lines 88-135: reader, column, writers, mergedict and all_tax_ids
Configure ==
    /\ UNCHANGED <<pureVars, loadVars>>
    /\ rpc = "start"
    /\ LET col == ResolveColumn(fieldnames, arg_taxid_column)
       IN  IF col.exc # "none"
           THEN /\ rpc' = "raised"
                /\ rexc' = col.exc
                /\ UNCHANGED <<taxid_column, out_header, unk_header>>
           ELSE /\ rpc' = "rows"
                /\ taxid_column' = col.val
                /\ out_header' = WritesHeader
                /\ unk_header' = (with_unknowns /\ ~tax_id_file)
                /\ UNCHANGED rexc
    /\ UNCHANGED <<fieldnames, arg_taxid_column, tax_id_file, unknown_action,
                   with_unknowns, infile, all_tax_ids, mergedict, rpos, outfile,
                   unknowns>>

\* the merged mapping consulted before the valid ids
RewrittenMergedFirst(row) ==
    LET tax_id == row[taxid_column]
    IN  IF tax_id \in DOMAIN mergedict
        THEN [row EXCEPT ![taxid_column] = mergedict[tax_id]]
        ELSE row

\* the row writer.writerow(row) writes for a known tax_id
Rewritten(row) ==
    LET tax_id == row[taxid_column]
    IN  IF tax_id \in all_tax_ids THEN row
        ELSE IF tax_id \in DOMAIN mergedict
             THEN [row EXCEPT ![taxid_column] = mergedict[tax_id]]
             ELSE row

IsUnknown(row) ==
    row[taxid_column] \notin all_tax_ids /\ row[taxid_column] \notin DOMAIN mergedict

\* lines 138-156: one iteration of  for row in reader
RemapRow ==
    /\ UNCHANGED <<pureVars, loadVars>>
    /\ rpc = "rows" /\ rpos < Len(infile)
    /\ LET row == infile[rpos + 1]
       IN  /\ rpos' = rpos + 1
           /\ unknowns' = IF IsUnknown(row) /\ with_unknowns
                          THEN Append(unknowns, row) ELSE unknowns
           /\ IF ~IsUnknown(row) \/ unknown_action = "ignore"
              THEN /\ outfile' = Append(outfile, Rewritten(row))
                   /\ UNCHANGED <<rpc, rexc>>
              ELSE IF unknown_action = "drop"
              THEN UNCHANGED <<outfile, rpc, rexc>>
              ELSE /\ rpc' = "exited"
                   /\ rexc' = "SystemExit"
                   /\ UNCHANGED outfile
    /\ UNCHANGED <<fieldnames, arg_taxid_column, tax_id_file, unknown_action,
                   with_unknowns, infile, all_tax_ids, mergedict, taxid_column,
                   out_header, unk_header>>

\* the reader is exhausted and action returns
RemapReturn ==
    /\ UNCHANGED <<pureVars, loadVars>>
    /\ rpc = "rows" /\ rpos = Len(infile)
    /\ rpc' = "done"
    /\ UNCHANGED <<fieldnames, arg_taxid_column, tax_id_file, unknown_action,
                   with_unknowns, infile, all_tax_ids, mergedict, taxid_column,
                   rpos, out_header, outfile, unk_header, unknowns, rexc>>

(***************************************************************************)
(* The inputs of the remapper                                              *)
(***************************************************************************)
ColId == <<"i", "d">>
ColN == <<"n">>
Headers == <<ColId, ColN>>
Selectors == {ColId, ColN, <<"1">>, <<"2">>, <<"0">>, <<"3">>, <<"x">>}
Ids == {"1", "3", "9"}
OtherIds == {"1", "9"}
ValidSets == {{"1", "2"}, {"1", "2", "3"}}
MergedMaps == {("3" :> "2"), ("3" :> "2") @@ ("9" :> "1")}

RemapInit ==
    /\ arg_taxid_column \in Selectors
    /\ tax_id_file \in BOOLEAN
    /\ fieldnames = IF tax_id_file THEN <<arg_taxid_column>> ELSE Headers
    /\ infile \in IF tax_id_file
                  THEN SeqsUpTo([{arg_taxid_column} -> Ids], MaxRows)
                  ELSE SeqsUpTo({(ColId :> a) @@ (ColN :> b) : a \in Ids, b \in OtherIds},
                                MaxRows)
    /\ unknown_action \in {"drop", "ignore", "error"}
    /\ with_unknowns \in BOOLEAN
    /\ all_tax_ids \in ValidSets
    /\ mergedict \in MergedMaps
    /\ taxid_column = <<>> /\ rpos = 0 /\ out_header = FALSE /\ outfile = <<>>
    /\ unk_header = FALSE /\ unknowns = <<>> /\ rpc = "start" /\ rexc = "none"

PureStart == PureInit /\ LoadIdle /\ RemapIdle
PureNext == Call_add_space \/ Call_parse_classes
PureSpec == PureStart /\ [][PureNext]_vars

LoadStart == LoadInit /\ PureIdle /\ RemapIdle
LoadNext ==
    db_load \/ Call_load_rows \/ _load_rows \/ NextRow \/ _get_or_insert \/ _clean_species
LoadSpec == LoadStart /\ [][LoadNext]_vars

RemapStart == RemapInit /\ PureIdle /\ LoadIdle
RemapNext == Configure \/ RemapRow \/ RemapReturn
RemapSpec == RemapStart /\ [][RemapNext]_vars

(***************************************************************************)
(* Claims about update_taxids.action (RemapSpec)                           *)
(***************************************************************************)
\* what the claim says is written for the rows read, and whether the run aborts
RECURSIVE ClaimedOutput(_)
ClaimedOutput(rows) ==
    IF rows = <<>> THEN [out |-> <<>>, aborted |-> FALSE]
    ELSE LET before == ClaimedOutput(SubSeq(rows, 1, Len(rows) - 1))
             row == rows[Len(rows)]
             id == row[taxid_column]
         IN  IF before.aborted THEN before
             ELSE IF id \in all_tax_ids
                  THEN [out |-> Append(before.out, row), aborted |-> FALSE]
             ELSE IF id \in DOMAIN mergedict
                  THEN [out |-> Append(before.out,
                                  [c \in DOMAIN row |->
                                      IF c = taxid_column THEN mergedict[id] ELSE row[c]]),
                        aborted |-> FALSE]
             ELSE IF unknown_action = "drop" THEN before
             ELSE IF unknown_action = "ignore"
                  THEN [out |-> Append(before.out, row), aborted |-> FALSE]
             ELSE [out |-> before.out, aborted |-> TRUE]

\* C1: the data rows written are determined row by row in input order: a row
\* with a valid id is written unchanged (also when the id is merged), else a
\* row with a merged id is written with only the id column replaced, else the
\* row is dropped ('drop'), written unchanged ('ignore'), or the run exits
\* with a failure at the first unknown row and writes nothing more ('error').
C1_RowByRow ==
    rpc \in {"rows", "done", "exited"} =>
        LET claimed == ClaimedOutput(SubSeq(infile, 1, rpos))
        IN  /\ outfile = claimed.out
            /\ (rpc = "exited") = claimed.aborted
            /\ rpc = "exited" =>
                  /\ rexc = "SystemExit"
                  /\ ~ClaimedOutput(SubSeq(infile, 1, rpos - 1)).aborted
            /\ rpc = "done" => rpos = Len(infile)

\* a finished run under 'drop' that rewrote a merged id and dropped an
\* unknown row
C1_Witness ==
    /\ rpc = "done" /\ unknown_action = "drop" /\ Len(infile) = 2 /\ Len(outfile) = 1
    /\ \E i \in 1..2 : infile[i][taxid_column] = "9" /\ "9" \notin DOMAIN mergedict
    /\ \E i \in 1..2 : infile[i][taxid_column] = "3" /\ "3" \notin all_tax_ids
                       /\ outfile[1][taxid_column] = "2"

\* C2: a selector that is a header name selects that column; otherwise an
\* integer in 1..len(headers) selects the header at that 1-based position;
\* every other selector (0, an index past the headers, an unknown name)
\* raises before any row is processed and before anything is written.
C2_ColumnSelection ==
    rpc # "start" =>
        IF arg_taxid_column \in Range(fieldnames)
        THEN rpc # "raised" /\ taxid_column = arg_taxid_column
        ELSE IF IsDecimal(arg_taxid_column)
                /\ DecValue(arg_taxid_column) \in 1..Len(fieldnames)
        THEN rpc # "raised" /\ taxid_column = fieldnames[DecValue(arg_taxid_column)]
        ELSE /\ rpc = "raised" /\ rexc # "none"
             /\ rpos = 0 /\ outfile = <<>> /\ ~out_header
             /\ unknowns = <<>> /\ ~unk_header

(***************************************************************************)
(* Claims about the pure functions (PureSpec)                              *)
(***************************************************************************)
\* the name repair rule as the claim states it
ClaimedRepair(sp, ge) ==
    IF StartsWith(sp, ge) /\ Len(sp) > Len(ge) /\ sp[Len(ge) + 1] # " "
    THEN ge \o <<" ">> \o SubSeq(sp, Len(ge) + 1, Len(sp))
    ELSE sp

\* C7: for every (species, genus) _add_space returns and never fails: genus,
\* a space and the remainder when species starts with genus and a character
\* other than a space follows the prefix; species unchanged otherwise, also
\* when species equals genus.
C7_AddSpace ==
    (fn = "_add_space" /\ result # Pending) =>
        result = Ok(ClaimedRepair(arg_species, arg_genus))

\* the entries the claim gives for the tokens: one per token with a name
RECURSIVE ClaimedEntries(_)
ClaimedEntries(tokens) ==
    IF tokens = <<>> THEN <<>>
    ELSE IF Head(tokens).name = <<>> THEN ClaimedEntries(Tail(tokens))
    ELSE <<[rank |-> _rank_map[Head(tokens).key], name |-> Head(tokens).name]>>
         \o ClaimedEntries(Tail(tokens))

ClaimedLineage(tokens, otu_id) ==
    LET e == ClaimedEntries(tokens)
        n == Len(e)
        fixed == IF n >= 2 /\ e[n].rank = species /\ e[n - 1].rank = genus
                 THEN [e EXCEPT ![n].name = ClaimedRepair(e[n].name, e[n - 1].name)]
                 ELSE e
    IN  <<[rank |-> root_name, name |-> root_name]>> \o fixed
        \o <<[rank |-> otu, name |-> Str(otu_id)]>>

\* C8: _parse_classes returns the root entry, then one (rank, name) entry per
\* token with a non-empty name in input order, then ('otu', str(otu_id)); the
\* species name is repaired only when the last two entries are genus, species.
C8_Lineage ==
    (fn = "_parse_classes" /\ result # Pending) =>
        result = Ok(ClaimedLineage(arg_tokens, arg_otu_id))

(***************************************************************************)
(* Claims about the loader and the name cleaner (LoadSpec)                 *)
(***************************************************************************)
NoDupTaxId(nd) == \A i, j \in 1..Len(nd) : nd[i].tax_id = nd[j].tax_id => i = j
NoDupName(nm) == \A i, j \in 1..Len(nm) : nm[i].tax_name = nm[j].tax_name => i = j
Store == [nodes |-> nodes, names |-> names]

\* C3 (as amended): rows are inserted only by a load that found both tables
\* empty; once a db_load has completed, every later call (a direct _load_rows
\* or a db_load, which skips the load and cleans again) leaves nodes and
\* names exactly as the first db_load left them, with no duplicate tax_id;
\* tax_names are pairwise distinct until the name cleaner first runs.
C3_SecondLoadSame ==
    /\ pc \in {"rows", "walk"} => committed = EmptyStore
    /\ runs >= 1 => (Store = after1 /\ committed = after1)
    /\ NoDupTaxId(nodes)
    /\ runs = 0 => NoDupName(names)

\* two db_load calls completed on an archive whose names the cleaner made equal
C3_Witness ==
    /\ runs >= 2 /\ pc = "idle" /\ via = "db_load"
    /\ Len(nodes) > 0 /\ ~NoDupName(names)

\* C3 (original): a second db_load leaves the tables as after the first, with
\* no duplicate tax_id and no duplicate tax_name.
C3_LoadTwice ==
    /\ pc \in {"rows", "walk"} => committed = EmptyStore
    /\ (runs >= 2 /\ pc = "idle") =>
          (Store = after1 /\ NoDupTaxId(nodes) /\ NoDupName(names))

\* C4: after every insertion exactly one node is its own parent, it is the
\* root created first, and every other node's parent_id is the tax_id of a
\* node inserted before it.
C4_Tree ==
    Len(nodes) > 0 =>
        /\ {i \in 1..Len(nodes) : nodes[i].parent_id = nodes[i].tax_id} = {1}
        /\ nodes[1].rank = root_name
        /\ names[1].tax_id = nodes[1].tax_id /\ names[1].tax_name = root_name
        /\ \A i \in 2..Len(nodes) :
              \E j \in 1..(i - 1) : nodes[j].tax_id = nodes[i].parent_id

\* the second lineage is being walked below two different genera
C4_Witness ==
    /\ pc = "walk" /\ pos = 2 /\ Len(nodes) >= 5
    /\ \E i, j \in 2..Len(nodes) :
          /\ i # j /\ nodes[i].rank = genus /\ nodes[j].rank = genus
          /\ nodes[i].parent_id = nodes[1].tax_id
          /\ nodes[j].parent_id = nodes[1].tax_id

\* C5: the k-th node created gets 'GG' and k as 8 zero-padded digits, so the
\* ids start from GG00000001.
C5_IdsFromOne ==
    \A k \in 1..Len(nodes) : nodes[k].tax_id = <<"G", "G">> \o Format08d(k)

\* C6: a load that fails after inserting rows leaves nodes and names as they
\* were before it (empty); nothing is committed while the load runs; db_load
\* reports the store's integrity error as the domain IntegrityError.
C6_Atomic ==
    /\ pc \in {"rows", "walk"} => committed = EmptyStore
    /\ (pc = "idle" /\ exc # "none") =>
          (nodes = <<>> /\ names = <<>> /\ committed = EmptyStore)
    /\ (via = "db_load" /\ pc = "idle") => exc # "sqlite3.IntegrityError"

\* db_load failed with an integrity error after at least one row went in
C6_Witness ==
    /\ pc = "idle" /\ via = "db_load" /\ exc = "IntegrityError"
    /\ count >= 2 /\ nodes = <<>> /\ names = <<>>

\* the names of all lineages of the archive
LineageNames(h) ==
    UNION {{_parse_gg(h[i]).val[k].name : k \in 1..Len(_parse_gg(h[i]).val)} :
              i \in 1..Len(h)}

\* one call of _get_or_insert, as the claim describes it
C9_Call ==
    pc = "walk" =>
        LET e == Head(classes)
            existing == {i \in 1..Len(names) : names[i].tax_name = e.name}
            n == Len(nodes)
        IN  IF existing = {}
            THEN \/ pc' = "idle" /\ exc' # "none"
                 \/ /\ Len(nodes') = n + 1 /\ SubSeq(nodes', 1, n) = nodes
                    /\ Len(names') = Len(names) + 1
                    /\ SubSeq(names', 1, Len(names)) = names
                    /\ nodes'[n + 1].rank = e.rank
                    /\ nodes'[n + 1].parent_id =
                          (IF parent.some THEN parent.val ELSE nodes'[n + 1].tax_id)
                    /\ names'[Len(names) + 1] =
                          [tax_id |-> nodes'[n + 1].tax_id, tax_name |-> e.name,
                           is_primary |-> 1]
                    /\ parent' = Some(nodes'[n + 1].tax_id)
            ELSE /\ nodes' = nodes /\ names' = names
                 /\ \E i \in existing : parent' = Some(names[i].tax_id)

\* C9: for each (rank, name) entry the loader inserts one node row and one
\* primary name row iff no name row has that tax_name, with the tax_id
\* resolved for the preceding entry as parent_id; otherwise it inserts
\* nothing and the existing tax_id becomes the next parent.  After the load
\* every name of every lineage is in names exactly once.
C9_InsertOrReuse ==
    /\ [][C9_Call]_vars
    /\ [](NoDupName(committed.names) \/ runs > 0)
    /\ []((runs = 0 /\ committed # EmptyStore) =>
            \A n \in LineageNames(handle) :
                Cardinality({i \in 1..Len(committed.names) :
                                committed.names[i].tax_name = n}) = 1)

\* the root was reused for the second lineage, whose genus is new
C9_Witness ==
    /\ pc = "walk" /\ pos = 2 /\ parent = Some(nodes[1].tax_id)
    /\ Len(nodes) >= 4 /\ ~Lookup(names, Head(classes).name).some

\* C10: the cleaning pass changes the tax_name of a name row only if the row
\* belongs to a species node whose parent has rank genus, the name does not
\* already begin with the parent genus name and a space, and a candidate
\* genus was found; all other name rows and all node rows are left unchanged.
C10_CleanerFrame ==
    [][pc = "clean" =>
        /\ nodes' = nodes
        /\ Len(names') = Len(names)
        /\ \A i \in 1..Len(names) :
              names'[i] # names[i] =>
                 /\ names'[i].tax_id = names[i].tax_id
                 /\ names'[i].is_primary = names[i].is_primary
                 /\ find_genus(GenusKeys(nodes, names), names[i].tax_name).some
                 /\ \E s, g \in 1..Len(nodes) :
                       /\ nodes[s].tax_id = names[i].tax_id
                       /\ nodes[s].rank = species
                       /\ nodes[s].parent_id = nodes[g].tax_id
                       /\ nodes[g].rank = genus
                       /\ \E n \in 1..Len(names) :
                             /\ names[n].tax_id = nodes[g].tax_id
                             /\ ~StartsWith(names[i].tax_name,
                                            names[n].tax_name \o <<" ">>)
    ]_vars

====
